---- MODULE Spec2Model ----
(***************************************************************************)
(* Model of the timeline construction of moviecap_desktop:                 *)
(*   src/video_processing.py  VideoProcessor (worker thread)               *)
(*   src/ui_handlers.py       UIHandlers (UI thread: start, cancel,        *)
(*                            completion callback)                         *)
(*                                                                         *)
(* Times and durations are integers in tenths of a second (ds).            *)
(* Probabilities and probability sums are integers in thousandths.         *)
(* Speeds are integers in hundredths (slowmo_speed 0.5 is 50).             *)
(***************************************************************************)
EXTENDS Integers, Sequences, FiniteSets, TLC

\* ------------------------------------------------------------------------
\* Bounds of the model (sampling grids of the continuous random draws)
\* ------------------------------------------------------------------------
\* number of grid points taken from random.uniform(2, max_duration)
DurationPoints == 2
\* number of grid points taken from random.uniform(0.8, 1.2)
VariationPoints == 2
\* longest list of excluded ranges built in the settings tab
MaxExcluded == 2
\* number of runs started one after the other
MaxRuns == 2

\* ------------------------------------------------------------------------
\* Program constants (ds)
\* ------------------------------------------------------------------------
LookbackShort == 3000
LookbackMedium == 4800
LookbackLong == 6000
TailStartOffset == 100
TailEndOffset == 5
ProbeStep == 5
MinSegment == 20
MaxSegment == 40
AvgSegmentDuration == 30
VariationLow == 80
VariationHigh == 120
BeginningPct == 33
MiddlePct == 66
One == 1000

Effects == {"slowmo", "freeze", "normal"}
Positions == {"beginning", "middle", "end"}

\* ------------------------------------------------------------------------
\* Arithmetic helpers
\* ------------------------------------------------------------------------
Min(a, b) == IF a <= b THEN a ELSE b
Max(a, b) == IF a >= b THEN a ELSE b
Abs(a) == IF a >= 0 THEN a ELSE -a

\* Python int(a / b) for b > 0: truncation toward zero
IntDiv(a, b) == IF a >= 0 THEN a \div b ELSE -((-a) \div b)

\* n grid points of random.uniform(lo, hi), both ends included
UniformPoints(lo, hi, n) ==
    IF hi <= lo THEN {lo}
    ELSE {lo + ((hi - lo) * i) \div (n - 1) : i \in 0..(n - 1)}

\* outcomes of `random.random() < p` (random() lies in [0, 1))
Bernoulli(p) == {b \in BOOLEAN : (b /\ p > 0) \/ (~b /\ p < One)}

RECURSIVE SumDuration(_)
SumDuration(clips) ==
    IF clips = <<>> THEN 0
    ELSE Head(clips).duration + SumDuration(Tail(clips))

RECURSIVE SelectEnd(_)
\* [clip for clip, position in included_clips if position == 'end']
SelectEnd(incl) ==
    IF incl = <<>> THEN <<>>
    ELSE IF Head(incl).position = "end"
         THEN <<Head(incl).clip>> \o SelectEnd(Tail(incl))
         ELSE SelectEnd(Tail(incl))

RECURSIVE SumIncluded(_)
\* sum(clip.duration for clip, _ in included_clips)
SumIncluded(incl) ==
    IF incl = <<>> THEN 0
    ELSE Head(incl).clip.duration + SumIncluded(Tail(incl))

\* ------------------------------------------------------------------------
\* Pure functions of VideoProcessor
\* ------------------------------------------------------------------------
\* faulty variant: the boundaries belong to the larger lookback
get_end_segment_strict(duration) ==
    [main_start |-> IF duration < 90 * 600 THEN duration - LookbackShort
                    ELSE IF duration < 120 * 600 THEN duration - LookbackMedium
                    ELSE duration - LookbackLong,
     final_start |-> duration - TailStartOffset,
     final_end |-> duration - TailEndOffset]

\* minutes = duration / 60; 90 minutes are 54000 ds, 120 minutes 72000 ds
get_end_segment(duration) ==
    [main_start |-> IF duration <= 90 * 600 THEN duration - LookbackShort
                    ELSE IF duration <= 120 * 600 THEN duration - LookbackMedium
                    ELSE duration - LookbackLong,
     final_start |-> duration - TailStartOffset,
     final_end |-> duration - TailEndOffset]

\* faulty variant: no time is excluded
never_excluded(time, excluded_timestamps) == FALSE

is_timestamp_excluded(time, excluded_timestamps) ==
    \E i \in 1..Len(excluded_timestamps) :
        excluded_timestamps[i][1] <= time /\ time <= excluded_timestamps[i][2]

\* faulty variant: the end of the window is probed too
ProbeTimesClosed(start_time, duration) ==
    {start_time + ProbeStep * k : k \in 0..(duration \div ProbeStep)}

\* np.arange(start_time, start_time + duration, 0.5)
ProbeTimes(start_time, duration) ==
    {start_time + ProbeStep * k : k \in 0..((duration - 1) \div ProbeStep)}

CandidateExcluded(start_time, duration, excluded_timestamps) ==
    \E t \in ProbeTimes(start_time, duration) :
        is_timestamp_excluded(t, excluded_timestamps)

\* np.isclose(total, 1.0): |total - 1| <= 1e-8 + 1e-5 * 1
IsClose(total) == Abs(total - One) * 100000 <= 1001

SumProbs(p) == p.slowmo + p.freeze + p.normal
SumDist(p) == p.beginning + p.middle + p.end

validate_settings_ok(s) ==
    IsClose(SumProbs(s.effect_probs)) /\ IsClose(SumDist(s.segment_dist))

\* random.choices(effect_choices, weights): a zero weight is never drawn
EffectChoices(s) == {e \in Effects : s.effect_probs[e] > 0}

\* clip.duration after the effect: speedx(factor) divides the duration,
\* the freeze frame is set to `duration`, normal keeps the subclip
EffectDuration(effect, span, s) ==
    IF effect = "slowmo" THEN (span * 100) \div s.slowmo_speed ELSE span

\* the clip object built for a source window
MakeClip(start, span, effect, fade, zone, s) ==
    [start |-> start, span |-> span,
     duration |-> EffectDuration(effect, span, s),
     effect |-> effect, fade |-> fade, zone |-> zone]

\* video.subclip(t_start, t_end) of the media library raises when t_start
\* lies after the end of the source
SubclipRaises(start, source_duration) == start > source_duration


\* ------------------------------------------------------------------------
\* Configurations the application can be started with
\* ------------------------------------------------------------------------
DefaultDist == [beginning |-> 400, middle |-> 250, end |-> 350]
DefaultProbs == [slowmo |-> 250, freeze |-> 650, normal |-> 100]
NormalOnly == [slowmo |-> 0, freeze |-> 0, normal |-> 1000]
SlowOrNormal == [slowmo |-> 500, freeze |-> 0, normal |-> 500]

BaseSettings ==
    [effect_probs |-> NormalOnly, segment_dist |-> DefaultDist,
     slowmo_speed |-> 50, fade_probability |-> 0,
     repeat_probability |-> 0, max_repeats |-> 1,
     excluded_timestamps |-> <<>>, include_timestamps |-> <<>>]

\* a configuration: the source and audio durations of the selected files
\* and the settings the user has entered
Config(v, a, s) == [video |-> v, audio |-> a, settings |-> s]

\* the keys collect_settings rewrites from the entry widgets
FormFields ==
    {"effect_probs", "segment_dist", "slowmo_speed", "fade_probability",
     "repeat_probability", "max_repeats"}

FormOf(s) == [k \in FormFields |-> s[k]]

\* collect_settings: the widget values are written into the settings
Collect(s, f) == [k \in DOMAIN s |-> IF k \in FormFields THEN f[k] ELSE s[k]]

\* the settings structure built by the constructor, with the timestamp
\* lists of the scenario
StartupSettings(s) ==
    [effect_probs |-> DefaultProbs, segment_dist |-> DefaultDist,
     slowmo_speed |-> 35, fade_probability |-> 500,
     repeat_probability |-> 200, max_repeats |-> 1,
     excluded_timestamps |-> s.excluded_timestamps,
     include_timestamps |-> s.include_timestamps]

Scenarios ==
    { \* 600 s source, 12 s target, no rules: every zone yields descriptors
      Config(6000, 120, BaseSettings),
      \* only the end of the End zone is free; repeats enabled
      Config(6000, 120, [BaseSettings EXCEPT
          !.excluded_timestamps = << <<0, 5000, "x">> >>,
          !.repeat_probability = 500, !.max_repeats = 2]),
      \* whole source excluded, 60 s target, end-tagged included range
      Config(6000, 600, [BaseSettings EXCEPT
          !.effect_probs = DefaultProbs, !.fade_probability = 500,
          !.excluded_timestamps = << <<0, 6000, "x">> >>,
          !.include_timestamps = << <<5000, 5030, "end">> >>]),
      \* included ranges of every placement, a bad tag, an empty range and
      \* a range past the end of the source
      Config(6000, 600, [BaseSettings EXCEPT
          !.excluded_timestamps = << <<0, 5890, "x">> >>,
          !.include_timestamps = << <<1000, 1500, "beginning">>,
                                    <<5000, 5030, "end">>,
                                    <<3000, 3020, "credits">>,
                                    <<4000, 4000, "end">>,
                                    <<7000, 7010, "end">>,
                                    <<2000, 2010, "middle">> >>]),
      \* an included range longer than the target
      Config(6000, 120, [BaseSettings EXCEPT
          !.effect_probs = SlowOrNormal,
          !.excluded_timestamps = << <<0, 5000, "x">> >>,
          !.include_timestamps = << <<5000, 5990, "end">> >>]),
      \* trimming that leaves part of the main sequence before an included clip
      Config(6000, 120, [BaseSettings EXCEPT
          !.excluded_timestamps = << <<0, 5000, "x">> >>,
          !.include_timestamps = << <<5000, 5030, "end">> >>]),
      \* a source shorter than the End zone lookback
      Config(2000, 120, BaseSettings),
      \* whole source excluded and a target shorter than the tail clip
      Config(6000, 50, [BaseSettings EXCEPT
          !.excluded_timestamps = << <<0, 6000, "x">> >>]),
      \* only the ends of the Middle and End zones are free; every accepted
      \* window is repeated once
      Config(6000, 300, [BaseSettings EXCEPT
          !.excluded_timestamps = << <<0, 3500, "x">>, <<3610, 5000, "y">> >>,
          !.repeat_probability = One]),
      \* sources of 90 and 120 minutes and a tenth of a second longer,
      \* everything but the tail excluded
      Config(54000, 120, [BaseSettings EXCEPT
          !.excluded_timestamps = << <<0, 80000, "x">> >>]),
      Config(54001, 120, [BaseSettings EXCEPT
          !.excluded_timestamps = << <<0, 80000, "x">> >>]),
      Config(72000, 120, [BaseSettings EXCEPT
          !.excluded_timestamps = << <<0, 80000, "x">> >>]),
      Config(72001, 120, [BaseSettings EXCEPT
          !.excluded_timestamps = << <<0, 80000, "x">> >>]),
      \* slow-motion speed 0: a window that draws the slow-motion effect
      \* raises; every accepted window is repeated once or twice
      Config(6000, 120, [BaseSettings EXCEPT
          !.effect_probs = SlowOrNormal, !.slowmo_speed = 0,
          !.repeat_probability = One, !.max_repeats = 2,
          !.excluded_timestamps = << <<0, 5000, "x">> >>,
          !.include_timestamps = << <<5000, 5030, "end">> >>]),
      \* the excluded range [0, 200] on a 600 s source
      Config(6000, 120, [BaseSettings EXCEPT
          !.excluded_timestamps = << <<0, 2000, "x">> >>]),
      \* an excluded range that begins where a candidate window can end
      Config(6000, 120, [BaseSettings EXCEPT
          !.excluded_timestamps = << <<0, 5000, "x">>, <<5360, 5400, "y">> >>]),
      \* a target too short for any zone to be given a segment
      Config(6000, 50, BaseSettings),
      \* probability sum 0.9
      Config(6000, 120, [BaseSettings EXCEPT
          !.effect_probs = [slowmo |-> 0, freeze |-> 0, normal |-> 900]]),
      \* probability sum 0.995
      Config(6000, 120, [BaseSettings EXCEPT
          !.effect_probs = [slowmo |-> 0, freeze |-> 0, normal |-> 995]]) }

\* the constructor's settings without timestamp rules
DefaultSettings ==
    [effect_probs |-> DefaultProbs, segment_dist |-> DefaultDist,
     slowmo_speed |-> 35, fade_probability |-> 500,
     repeat_probability |-> 200, max_repeats |-> 1,
     excluded_timestamps |-> <<>>, include_timestamps |-> <<>>]

\* runs explored with pinned draws: 600 s source, 60 s target, no rules
PinnedScenarios == { Config(6000, 600, DefaultSettings) }

\* the draws of a run are free
Free ==
    [on |-> FALSE, duration |-> "low", variation |-> "low",
     effect |-> "normal", fade |-> FALSE, repeat |-> FALSE]

\* every draw of a kind gives the same outcome throughout the run
Patterns ==
    [on : {TRUE}, duration : {"low", "high"}, variation : {"low", "high"},
     effect : Effects, fade : BOOLEAN, repeat : BOOLEAN]

\* ------------------------------------------------------------------------
\* State
\* ------------------------------------------------------------------------
VARIABLES
    \* selected files (durations reported by the media library)
    video_duration, audio_duration,
    \* UI thread: VideoEditorApp / UIHandlers
    app_settings, app_processing, processor_created, cancelled,
    status, after_queue, output_exists,
    \* worker thread: position in process_video and its locals
    pc, settings, video_open, audio_open,
    zone, section_end, step, current_time, segment_duration, repeats_left,
    beginning_clips, middle_clips, end_clips,
    include_idx, included_clips,
    all_segments, included_end_clips, trim_duration, final_video,
    \* history of the run
    ret, concat_invoked, render_invoked, rendered_duration, cancel_pc,
    \* the error most recently passed to self.log by an except branch
    error_logged,
    \* the values held by the entry widgets of the settings tabs
    form,
    \* the outcomes of the random generator in this run: free, or every
    \* draw of a kind pinned to one outcome
    pinned,
    \* number of worker threads start_processing has created
    runs_started,
    \* the threads that have written the log text widget and the progress
    \* label
    log_writers

files == <<video_duration, audio_duration, pinned>>
ui == <<app_settings, app_processing, processor_created, status, output_exists>>
zone_locals == <<zone, section_end, step, current_time, segment_duration, repeats_left>>
zone_clips == <<beginning_clips, middle_clips, end_clips>>
incl_locals == <<include_idx, included_clips>>
fit_locals == <<all_segments, included_end_clips, trim_duration, final_video>>
handles == <<video_open, audio_open>>
run_history == <<concat_invoked, render_invoked, rendered_duration>>
history == <<run_history, error_logged, log_writers>>

vars == <<files, form, runs_started, ui, cancelled, after_queue, cancel_pc, pc, settings, handles,
          zone_locals, zone_clips, incl_locals, fit_locals, history, ret>>

\* random.uniform(2, max_duration)
DurationDraws(lo, hi) ==
    IF pinned.on
    THEN {IF pinned.duration = "low" THEN lo ELSE Max(lo, hi)}
    ELSE UniformPoints(lo, hi, DurationPoints)

\* random.uniform(0.8, 1.2)
VariationDraws ==
    IF pinned.on
    THEN {IF pinned.variation = "low" THEN VariationLow ELSE VariationHigh}
    ELSE UniformPoints(VariationLow, VariationHigh, VariationPoints)

\* random.choices(effect_choices, weights)
EffectDraws(s) ==
    IF pinned.on THEN EffectChoices(s) \cap {pinned.effect} ELSE EffectChoices(s)

\* random.random() < fade_probability
FadeDraws(s) ==
    IF pinned.on
    THEN Bernoulli(s.fade_probability) \cap {pinned.fade}
    ELSE Bernoulli(s.fade_probability)

\* random.random() < repeat probability
RepeatDraws(s) ==
    IF pinned.on
    THEN Bernoulli(s.repeat_probability) \cap {pinned.repeat}
    ELSE Bernoulli(s.repeat_probability)

Init ==
    /\ \/ \E c \in Scenarios :
            /\ video_duration = c.video
            /\ audio_duration = c.audio
            /\ app_settings = StartupSettings(c.settings)
            /\ form = FormOf(c.settings)
            /\ pinned = Free
       \/ \E c \in PinnedScenarios, p \in Patterns :
            /\ video_duration = c.video
            /\ audio_duration = c.audio
            /\ app_settings = StartupSettings(c.settings)
            /\ form = FormOf(c.settings)
            /\ pinned = p
    /\ runs_started = 0
    /\ log_writers = {}
    /\ app_processing = FALSE
    /\ processor_created = FALSE
    /\ cancelled = FALSE
    /\ status = "Ready"
    /\ after_queue = <<>>
    /\ output_exists = FALSE
    /\ pc = "idle"
    /\ settings = BaseSettings
    /\ video_open = FALSE
    /\ audio_open = FALSE
    /\ zone = "none"
    /\ section_end = 0
    /\ step = 0
    /\ current_time = 0
    /\ segment_duration = 0
    /\ repeats_left = 0
    /\ beginning_clips = <<>>
    /\ middle_clips = <<>>
    /\ end_clips = <<>>
    /\ include_idx = 0
    /\ included_clips = <<>>
    /\ all_segments = <<>>
    /\ included_end_clips = <<>>
    /\ trim_duration = 0
    /\ final_video = 0
    /\ ret = "none"
    /\ concat_invoked = FALSE
    /\ render_invoked = FALSE
    /\ rendered_duration = 0
    /\ cancel_pc = "none"
    /\ error_logged = "none"


\* ------------------------------------------------------------------------
\* UI thread
\* ------------------------------------------------------------------------
worker_locals == <<zone_locals, zone_clips, incl_locals, fit_locals>>

\* UIHandlers.start_processing: probability check with tolerance 0.01,
\* then a new VideoProcessor and the worker thread with settings.copy()
UiTotalsOk(s) ==
    /\ Abs(SumProbs(s.effect_probs) - One) * 100 <= One
    /\ Abs(SumDist(s.segment_dist) - One) * 100 <= One

\* faulty variant: the test of app.processing is missing
AlwaysAllowed(processing) == TRUE

\* lines 390-392: a start is refused while app.processing is set
StartAllowed(processing) == ~processing

StartProcessing ==
    /\ pc = "idle"
    /\ StartAllowed(app_processing)
    /\ app_settings' = Collect(app_settings, form)
    /\ UiTotalsOk(app_settings')
    /\ app_processing' = TRUE
    /\ processor_created' = TRUE
    /\ cancelled' = FALSE
    /\ settings' = app_settings'
    /\ runs_started' = runs_started + 1
    /\ pc' = "load"
    /\ UNCHANGED <<files, form, status, output_exists, after_queue,
                   cancel_pc, handles, worker_locals, history, ret>>

\* lines 394-406: the totals are checked after collect_settings; the error
\* box is shown and start_processing returns
StartRejected ==
    /\ pc = "idle"
    /\ StartAllowed(app_processing)
    /\ app_settings' = Collect(app_settings, form)
    /\ ~UiTotalsOk(app_settings')
    /\ UNCHANGED <<files, form, runs_started, app_processing, processor_created, status,
                   output_exists, cancelled, after_queue, cancel_pc, pc, settings,
                   handles, worker_locals, history, ret>>

\* UIHandlers.log_message run by `thread`: log_text.insert and
\* progress_var.set are called directly
LogMessage(writers, thread) == writers \cup {thread}

\* UIHandlers.cancel_processing, confirmed by the user: VideoProcessor.cancel
CancelProcessing ==
    /\ processor_created
    /\ app_processing
    /\ ~cancelled
    /\ cancelled' = TRUE
    /\ cancel_pc' = pc
    /\ log_writers' = LogMessage(log_writers, "ui")
    /\ UNCHANGED <<files, form, runs_started, ui, after_queue, pc, settings, handles,
                   worker_locals, run_history, error_logged, ret>>

\* outcome shown by UIHandlers.processing_complete(success, output_path)
CompletionStatus(success, is_cancelled) ==
    IF success /\ ~is_cancelled THEN "completed"
    ELSE IF is_cancelled THEN "cancelled"
    ELSE "failed"

\* faulty variant: the cancelled branch leaves the file in place
KeepOutput(success, is_cancelled, exists) == exists

\* os.remove(output_path) in the cancelled branch
OutputAfterCompletion(success, is_cancelled, exists) ==
    IF CompletionStatus(success, is_cancelled) = "cancelled" THEN FALSE ELSE exists

ProcessingComplete ==
    /\ after_queue # <<>>
    /\ LET success == Head(after_queue) IN
        /\ status' = CompletionStatus(success, cancelled)
        /\ output_exists' = OutputAfterCompletion(success, cancelled, output_exists)
    /\ after_queue' = Tail(after_queue)
    /\ app_processing' = FALSE
    /\ UNCHANGED <<files, form, runs_started, app_settings, processor_created, cancelled, cancel_pc,
                   pc, settings, handles, worker_locals, history, ret>>

\* ------------------------------------------------------------------------
\* Worker thread: VideoProcessor.process_video run by process_video_thread
\* ------------------------------------------------------------------------
\* faulty variant: the worker ends without queueing the callback
NotScheduled(queue, value) == queue

\* root.after(0, self.processing_complete, success, output_path)
Scheduled(queue, value) == Append(queue, value)

\* `return value` of process_video followed by
\* root.after(0, processing_complete, success, output_path); the locals die
Return(value) ==
    /\ ret' = (IF value THEN "True" ELSE "False")
    /\ after_queue' = Scheduled(after_queue, value)
    /\ pc' = "finished"
    /\ zone' = "none"
    /\ section_end' = 0
    /\ step' = 0
    /\ current_time' = 0
    /\ segment_duration' = 0
    /\ repeats_left' = 0
    /\ beginning_clips' = <<>>
    /\ middle_clips' = <<>>
    /\ end_clips' = <<>>
    /\ include_idx' = 0
    /\ included_clips' = <<>>
    /\ all_segments' = <<>>
    /\ included_end_clips' = <<>>
    /\ trim_duration' = 0
    /\ final_video' = 0

\* lines 247-249: VideoFileClip(video_path), AudioFileClip(audio_path)
LoadFiles ==
    /\ pc = "load"
    /\ video_open' = TRUE
    /\ audio_open' = TRUE
    /\ pc' = "chk_load"
    /\ log_writers' = LogMessage(log_writers, "worker")
    /\ UNCHANGED <<files, form, runs_started, ui, cancelled, after_queue, cancel_pc, settings,
                   worker_locals, run_history, error_logged, ret>>

\* the media library raises while opening the source: except branch
LoadFails ==
    /\ pc = "load"
    /\ error_logged' = "load"
    /\ log_writers' = LogMessage(log_writers, "worker")
    /\ Return(FALSE)
    /\ UNCHANGED <<files, form, runs_started, ui, cancelled, cancel_pc, settings, handles, run_history>>

\* a cancellation check `if self.cancelled: return False` at position `at`,
\* continuing at `next` when the flag is clear
CancelCheck(at, next) ==
    /\ pc = at
    /\ IF cancelled
       THEN /\ Return(FALSE)
            /\ UNCHANGED <<files, form, runs_started, ui, cancelled, cancel_pc, settings, handles, history>>
       ELSE /\ pc' = next
            /\ UNCHANGED <<files, form, runs_started, ui, cancelled, after_queue, cancel_pc, settings,
                           handles, worker_locals, history, ret>>

\* line 251
CheckAfterLoad == CancelCheck("chk_load", "validate")


\* lines 263-267: the sampled section of each zone
ZoneStart(z, duration) ==
    IF z = "beginning" THEN 0
    ELSE IF z = "middle" THEN (duration * BeginningPct) \div 100
    ELSE get_end_segment(duration).main_start

ZoneEnd(z, duration) ==
    IF z = "beginning" THEN (duration * BeginningPct) \div 100
    ELSE IF z = "middle" THEN (duration * MiddlePct) \div 100
    ELSE get_end_segment(duration).final_start

\* lines 270-277: int(target_duration * segment_dist[zone] / 3)
ZoneSegments(z, target_duration, s) ==
    IntDiv(target_duration * s.segment_dist[z], One * AvgSegmentDuration)

\* lines 122-125 of create_section_clips
ActualSegments(section_duration, num_segments) ==
    Max(1, Min(num_segments, IntDiv(section_duration, MinSegment)))

SectionStep(section_start, end, num_segments) ==
    (end - section_start) \div ActualSegments(end - section_start, num_segments)

\* call of create_section_clips(video, section_start, section_end, n, settings)
EnterZone(z) ==
    /\ zone' = z
    /\ section_end' = ZoneEnd(z, video_duration)
    /\ step' = SectionStep(ZoneStart(z, video_duration), ZoneEnd(z, video_duration),
                           ZoneSegments(z, audio_duration, settings))
    /\ current_time' = ZoneStart(z, video_duration)
    /\ segment_duration' = 0
    /\ repeats_left' = 0
    /\ pc' = "zone_loop"

\* lines 255-282: validate_settings, zone planning, first zone entered
ValidateAndPlan ==
    /\ pc = "validate"
    /\ IF validate_settings_ok(settings)
       THEN /\ EnterZone("beginning")
            /\ UNCHANGED <<zone_clips, incl_locals, fit_locals, after_queue, ret,
                           error_logged>>
       ELSE /\ error_logged' = "settings"
            /\ Return(FALSE)
    /\ UNCHANGED <<files, form, runs_started, ui, cancelled, cancel_pc, settings, handles, run_history, log_writers>>

\* the clip list of the zone being sampled
ZoneClips == IF zone = "beginning" THEN beginning_clips
             ELSE IF zone = "middle" THEN middle_clips
             ELSE end_clips

SetZoneClips(clips) ==
    /\ beginning_clips' = (IF zone = "beginning" THEN clips ELSE beginning_clips)
    /\ middle_clips' = (IF zone = "middle" THEN clips ELSE middle_clips)
    /\ end_clips' = (IF zone = "end" THEN clips ELSE end_clips)

\* lines 128-134: loop test, remaining-time test, draw of segment_duration
LoopContinues ==
    /\ current_time < section_end
    /\ ~cancelled
    /\ section_end - current_time >= MinSegment

ZoneLoop ==
    /\ pc = "zone_loop"
    /\ IF LoopContinues
       THEN /\ \E d \in DurationDraws(MinSegment,
                                      Min(MaxSegment, section_end - current_time)) :
                    segment_duration' = d
            /\ pc' = "zone_clip"
       ELSE /\ segment_duration' = 0
            /\ pc' = "zone_done"
    /\ UNCHANGED <<files, form, runs_started, ui, cancelled, after_queue, cancel_pc, settings, handles,
                   zone, section_end, step, current_time, repeats_left,
                   zone_clips, incl_locals, fit_locals, history, ret>>

\* create_random_effect_clip returns None: cancelled, or a probe is excluded
ClipRejected(start_time, duration) ==
    \/ cancelled
    \/ CandidateExcluded(start_time, duration, settings.excluded_timestamps)

\* vfx.speedx divides the clip duration by the speed factor
EffectRaises(effect, s) == effect = "slowmo" /\ s.slowmo_speed = 0

\* building the clip of a window raises: in subclip, or in the effect
ClipRaises(start_time, effect) ==
    \/ SubclipRaises(start_time, video_duration)
    \/ EffectRaises(effect, settings)

\* the clips create_random_effect_clip can return for an accepted window
\* and a drawn effect
EffectClips(start_time, duration, z, effect) ==
    {MakeClip(start_time, duration, effect, f, z, settings) :
        f \in FadeDraws(settings)}

\* faulty variant: the error ends the sampling of the zone
AbortZone == "zone_done"

\* lines 149-153: the except branch logs, then the position advances
AfterClipError == "zone_step"

\* lines 136-142 and 149-150: first clip of the candidate, repeat draw
ZoneClip ==
    /\ pc = "zone_clip"
    /\ IF ClipRejected(current_time, segment_duration)
       THEN /\ repeats_left' = 0
            /\ pc' = "zone_step"
            /\ UNCHANGED <<zone_clips, error_logged>>
       ELSE \E e \in EffectDraws(settings) :
            IF ClipRaises(current_time, e)
            THEN /\ error_logged' = "clip"
                 /\ repeats_left' = 0
                 /\ pc' = AfterClipError
                 /\ UNCHANGED zone_clips
            ELSE /\ \E c \in EffectClips(current_time, segment_duration, zone, e) :
                         SetZoneClips(Append(ZoneClips, c))
                 /\ \E rep \in RepeatDraws(settings) :
                         IF rep
                         THEN /\ \E n \in 1..settings.max_repeats : repeats_left' = n
                              /\ pc' = "zone_repeat"
                         ELSE /\ repeats_left' = 0
                              /\ pc' = "zone_step"
                 /\ UNCHANGED error_logged
    /\ UNCHANGED <<files, form, runs_started, ui, cancelled, after_queue, cancel_pc, settings, handles,
                   zone, section_end, step, current_time, segment_duration,
                   incl_locals, fit_locals, run_history, log_writers, ret>>

\* lines 143-150: one iteration of the repeat loop; an error raised by a
\* repeat leaves the loop through the except branch
ZoneRepeat ==
    /\ pc = "zone_repeat"
    /\ IF cancelled
       THEN /\ repeats_left' = 0
            /\ pc' = "zone_step"
            /\ UNCHANGED <<zone_clips, error_logged>>
       ELSE IF ClipRejected(current_time, segment_duration)
       THEN /\ repeats_left' = repeats_left - 1
            /\ pc' = (IF repeats_left > 1 THEN "zone_repeat" ELSE "zone_step")
            /\ UNCHANGED <<zone_clips, error_logged>>
       ELSE \E e \in EffectDraws(settings) :
            IF ClipRaises(current_time, e)
            THEN /\ error_logged' = "clip"
                 /\ repeats_left' = 0
                 /\ pc' = AfterClipError
                 /\ UNCHANGED zone_clips
            ELSE /\ \E c \in EffectClips(current_time, segment_duration, zone, e) :
                         SetZoneClips(Append(ZoneClips, c))
                 /\ repeats_left' = repeats_left - 1
                 /\ pc' = (IF repeats_left > 1 THEN "zone_repeat" ELSE "zone_step")
                 /\ UNCHANGED error_logged
    /\ UNCHANGED <<files, form, runs_started, ui, cancelled, after_queue, cancel_pc, settings, handles,
                   zone, section_end, step, current_time, segment_duration,
                   incl_locals, fit_locals, run_history, log_writers, ret>>

\* faulty variant: the position is left where it is
NoAdvance(time, section_step, variation) == time

\* line 153: current_time += step * step_variation
Advance(time, section_step, variation) == time + (section_step * variation) \div 100

\* lines 152-153: current_time += step * random.uniform(0.8, 1.2)
ZoneStep ==
    /\ pc = "zone_step"
    /\ \E u \in VariationDraws :
            current_time' = Advance(current_time, step, u)
    /\ segment_duration' = 0
    /\ pc' = "zone_loop"
    /\ UNCHANGED <<files, form, runs_started, ui, cancelled, after_queue, cancel_pc, settings, handles,
                   zone, section_end, step, repeats_left,
                   zone_clips, incl_locals, fit_locals, history, ret>>

\* lines 283-292: cancellation check after each zone, next zone entered
NextZone == IF zone = "beginning" THEN "middle" ELSE "end"

ZoneDone ==
    /\ pc = "zone_done"
    /\ IF cancelled
       THEN Return(FALSE)
       ELSE /\ IF zone = "end"
               THEN /\ pc' = "final_clip"
                    /\ current_time' = 0
                    /\ step' = 0
                    /\ section_end' = 0
                    /\ UNCHANGED <<zone, segment_duration, repeats_left>>
               ELSE EnterZone(NextZone)
            /\ UNCHANGED <<zone_clips, incl_locals, fit_locals, after_queue, ret>>
    /\ UNCHANGED <<files, form, runs_started, ui, cancelled, cancel_pc, settings, handles, history>>


\* lines 294-300: the tail window clip is appended to end_clips, then
\* create_included_segment_clips is called
TailClip(duration) ==
    MakeClip(get_end_segment(duration).final_start,
             get_end_segment(duration).final_end - get_end_segment(duration).final_start,
             "normal", FALSE, "tail", settings)

FinalClip ==
    /\ pc = "final_clip"
    /\ end_clips' = Append(end_clips, TailClip(video_duration))
    /\ include_idx' = 1
    /\ included_clips' = <<>>
    /\ pc' = "incl_loop"
    /\ UNCHANGED <<files, form, runs_started, ui, cancelled, after_queue, cancel_pc, settings, handles,
                   zone_locals, beginning_clips, middle_clips, fit_locals,
                   history, ret>>

\* faulty variant: an unknown placement tag is kept
KeepPosition(position) == position

\* lines 165-166: an unknown placement tag becomes 'end'
NormalizePosition(position) ==
    IF position \in Positions THEN position ELSE "end"

\* lines 161-196: one iteration of the loop over include_timestamps
IncludedLoop ==
    /\ pc = "incl_loop"
    /\ IF include_idx > Len(settings.include_timestamps) \/ cancelled
       THEN /\ pc' = "chk_included"
            /\ UNCHANGED <<incl_locals, error_logged>>
       ELSE LET r == settings.include_timestamps[include_idx] IN
            /\ IF r[2] - r[1] <= 0
               THEN UNCHANGED <<included_clips, error_logged>>
               ELSE \E e \in EffectDraws(settings) :
                    IF ClipRaises(r[1], e)
                    THEN /\ error_logged' = "clip"
                         /\ UNCHANGED included_clips
                    ELSE /\ \E c \in EffectClips(r[1], r[2] - r[1], "included", e) :
                                included_clips' = Append(included_clips,
                                    [clip |-> c, position |-> NormalizePosition(r[3])])
                         /\ UNCHANGED error_logged
            /\ include_idx' = include_idx + 1
            /\ pc' = "incl_loop"
    /\ UNCHANGED <<files, form, runs_started, ui, cancelled, after_queue, cancel_pc, settings, handles,
                   zone_locals, zone_clips, fit_locals, run_history, log_writers, ret>>

\* line 301
CheckAfterIncluded == CancelCheck("chk_included", "organize")

\* lines 311-316: the excess over the target duration
MainClipsDuration(segments) == SumDuration(segments)

IncludedClipsDuration(incl) == SumIncluded(incl)

\* faulty variant: the excess ignores the included clips
MainOnlyExcess(segments, incl, target_duration) ==
    MainClipsDuration(segments) - target_duration

TrimExcess(segments, incl, target_duration) ==
    MainClipsDuration(segments) + IncludedClipsDuration(incl) - target_duration

\* faulty variant: the End clips are put first
EndFirst(b, m, e) == e \o b \o m

\* line 305: all_segments = beginning_clips + middle_clips + end_clips
AssembleMain(b, m, e) == b \o m \o e

\* lines 305-316: all_segments, included_end_clips, trim_duration
Organize ==
    /\ pc = "organize"
    /\ all_segments' = AssembleMain(beginning_clips, middle_clips, end_clips)
    /\ included_end_clips' = SelectEnd(included_clips)
    /\ LET excess == TrimExcess(AssembleMain(beginning_clips, middle_clips, end_clips),
                                included_clips, audio_duration) IN
        IF excess > 0
        THEN /\ trim_duration' = excess
             /\ pc' = "trim"
        ELSE /\ trim_duration' = 0
             /\ pc' = "extend"
    /\ UNCHANGED <<files, form, runs_started, ui, cancelled, after_queue, cancel_pc, settings, handles,
                   zone_locals, zone_clips, incl_locals, final_video, history, ret>>

\* faulty variant: the loop ignores the remaining excess
PopWhileAny(trim, segments) == segments # <<>>

\* line 317: while trim_duration > 0 and all_segments
TrimContinues(trim, segments) == trim > 0 /\ segments # <<>>

\* faulty variant: pop(0), the first descriptor is removed
PopFirst(segments) == Tail(segments)

\* line 318: all_segments.pop()
PopLast(segments) == SubSeq(segments, 1, Len(segments) - 1)

Popped(segments) == segments[Len(segments)]

\* faulty variant: the source span of the removed clip is subtracted
PoppedSpan(segments) == Popped(segments).span

\* line 319: clip_to_remove.duration
PoppedDuration(segments) == Popped(segments).duration

\* lines 317-319: one iteration of the trimming loop
Trim ==
    /\ pc = "trim"
    /\ IF TrimContinues(trim_duration, all_segments)
       THEN /\ all_segments' = PopLast(all_segments)
            /\ trim_duration' = trim_duration - PoppedDuration(all_segments)
            /\ pc' = "trim"
       ELSE /\ pc' = "extend"
            /\ UNCHANGED <<all_segments, trim_duration>>
    /\ UNCHANGED <<files, form, runs_started, ui, cancelled, after_queue, cancel_pc, settings, handles,
                   zone_locals, zone_clips, incl_locals, included_end_clips,
                   final_video, history, ret>>

\* faulty variant: the emptiness test is missing
NeverEmpty(segments) == FALSE

\* line 324: if not all_segments
TimelineEmpty(segments) == segments = <<>>

\* lines 322-325: the included clips are appended; an empty list raises
Extend ==
    /\ pc = "extend"
    /\ IF TimelineEmpty(all_segments \o included_end_clips)
       THEN /\ error_logged' = "no_segments"
            /\ Return(FALSE)
       ELSE /\ all_segments' = all_segments \o included_end_clips
            /\ pc' = "chk_concat"
            /\ UNCHANGED <<zone_locals, zone_clips, incl_locals, included_end_clips,
                           trim_duration, final_video, after_queue, ret,
                           error_logged>>
    /\ UNCHANGED <<files, form, runs_started, ui, cancelled, cancel_pc, settings, handles, run_history, log_writers>>

\* faulty variant: no cancellation check before the concatenation
ConcatUnchecked ==
    /\ pc = "chk_concat"
    /\ pc' = "concat"
    /\ UNCHANGED <<files, form, runs_started, ui, cancelled, after_queue, cancel_pc, settings,
                   handles, worker_locals, history, ret>>

\* line 327
CheckBeforeConcat == CancelCheck("chk_concat", "concat")

\* faulty variant: the concatenation is rendered as it is
NoClamp(total, target_duration) == total

\* lines 334-335: final_video.subclip(0, target_duration) when longer
ClampedDuration(total, target_duration) ==
    IF total > target_duration THEN target_duration ELSE total

\* lines 330-337: concatenate_videoclips, hard clamp, set_audio
Concat ==
    /\ pc = "concat"
    /\ concat_invoked' = TRUE
    /\ final_video' = ClampedDuration(SumDuration(all_segments), audio_duration)
    /\ pc' = "chk_render"
    /\ UNCHANGED <<files, form, runs_started, ui, cancelled, after_queue, cancel_pc, settings, handles,
                   zone_locals, zone_clips, incl_locals, all_segments,
                   included_end_clips, trim_duration, render_invoked,
                   rendered_duration, ret, error_logged, log_writers>>

\* line 339
CheckBeforeRender == CancelCheck("chk_render", "render")

\* lines 343-360: final_video.write_videofile(output_path, ...) succeeds
Render ==
    /\ pc = "render"
    /\ render_invoked' = TRUE
    /\ rendered_duration' = final_video
    /\ output_exists' = TRUE
    /\ pc' = "cleanup"
    /\ UNCHANGED <<files, form, runs_started, app_settings, app_processing, processor_created, status,
                   cancelled, after_queue, cancel_pc, settings, handles,
                   worker_locals, concat_invoked, ret, error_logged, log_writers>>

\* write_videofile raises: a partial file may be left, except branch
RenderFails ==
    /\ pc = "render"
    /\ render_invoked' = TRUE
    /\ rendered_duration' = final_video
    /\ \E partial \in BOOLEAN : output_exists' = partial
    /\ error_logged' = "render"
    /\ Return(FALSE)
    /\ UNCHANGED <<files, form, runs_started, app_settings, app_processing, processor_created, status,
                   cancelled, cancel_pc, settings, handles, concat_invoked,
                   log_writers>>

\* lines 363-371: handles closed, last cancellation check, return
CleanupAndReturn ==
    /\ pc = "cleanup"
    /\ video_open' = FALSE
    /\ audio_open' = FALSE
    /\ Return(~cancelled)
    /\ UNCHANGED <<files, form, runs_started, ui, cancelled, cancel_pc, settings, history>>

Next ==
    \/ StartRejected
    \/ StartProcessing
    \/ CancelProcessing
    \/ ProcessingComplete
    \/ LoadFiles
    \/ LoadFails
    \/ CheckAfterLoad
    \/ ValidateAndPlan
    \/ ZoneLoop
    \/ ZoneClip
    \/ ZoneRepeat
    \/ ZoneStep
    \/ ZoneDone
    \/ FinalClip
    \/ IncludedLoop
    \/ CheckAfterIncluded
    \/ Organize
    \/ Trim
    \/ Extend
    \/ CheckBeforeConcat
    \/ Concat
    \/ CheckBeforeRender
    \/ Render
    \/ RenderFails
    \/ CleanupAndReturn

Spec == Init /\ [][Next]_vars

\* ------------------------------------------------------------------------
\* Settings tabs used while a run is in progress
\* ------------------------------------------------------------------------
\* self.app.settings.copy() at line 426 is a shallow copy: the nested
\* dictionaries and the two timestamp lists of the worker's settings are
\* the objects held by app.settings, only the top-level entries are its own
SharedFields == FormFields \ {"slowmo_speed"}

\* a write of the collected values as the worker sees it
CollectShared(s, f) ==
    [k \in DOMAIN s |-> IF k \in SharedFields THEN f[k] ELSE s[k]]

WorkerAlive == pc \notin {"idle", "finished"}

\* ranges the TimestampDialog can return
EditRanges == { <<5000, 6000, "late">> }

\* values typed into the effect probability entries
TypedProbs == { NormalOnly, [slowmo |-> 0, freeze |-> 0, normal |-> 900] }

\* UIHandlers.add_excluded_timestamp: append to the list in place
AddExcludedTimestamp ==
    /\ Len(app_settings.excluded_timestamps) < MaxExcluded
    /\ \E r \in EditRanges :
        /\ app_settings' = [app_settings EXCEPT
                                !.excluded_timestamps = Append(@, r)]
        /\ settings' = IF WorkerAlive
                       THEN [settings EXCEPT !.excluded_timestamps = Append(@, r)]
                       ELSE settings
    /\ UNCHANGED <<files, form, runs_started, app_processing, processor_created, status,
                   output_exists, cancelled, after_queue, cancel_pc, pc, handles,
                   worker_locals, history, ret>>

\* the user types into the effect probability entries; update_effect_total
\* refreshes the total label only
TypeEffectProbs ==
    /\ \E p \in TypedProbs :
        /\ form.effect_probs # p
        /\ form' = [form EXCEPT !.effect_probs = p]
    /\ UNCHANGED <<files, runs_started, ui, cancelled, after_queue, cancel_pc, pc,
                   settings, handles, worker_locals, history, ret>>

\* UIHandlers.save_settings: collect_settings, then the file is written
SaveSettings ==
    /\ app_settings' = Collect(app_settings, form)
    /\ settings' = IF WorkerAlive THEN CollectShared(settings, form) ELSE settings
    /\ UNCHANGED <<files, form, runs_started, app_processing, processor_created, status,
                   output_exists, cancelled, after_queue, cancel_pc, pc, handles,
                   worker_locals, history, ret>>

\* a run with repeats, started from the settings tabs
EditScenarios ==
    { Config(6000, 120, [BaseSettings EXCEPT
          !.excluded_timestamps = << <<0, 5000, "x">> >>,
          !.repeat_probability = 500, !.max_repeats = 2]) }

InitEdit ==
    /\ Init
    /\ \E c \in EditScenarios :
        /\ video_duration = c.video
        /\ audio_duration = c.audio
        /\ app_settings = StartupSettings(c.settings)
        /\ form = FormOf(c.settings)

NextEdit ==
    \/ Next
    \/ AddExcludedTimestamp
    \/ TypeEffectProbs
    \/ SaveSettings

SpecEdit == InitEdit /\ [][NextEdit]_vars

\* ------------------------------------------------------------------------
\* The process button pressed again
\* ------------------------------------------------------------------------
\* UIHandlers.start_processing after an earlier start: a new output path,
\* a new VideoProcessor and a new worker thread
StartAgain ==
    /\ pc # "idle"
    /\ runs_started < MaxRuns
    /\ StartAllowed(app_processing)
    /\ app_settings' = Collect(app_settings, form)
    /\ UiTotalsOk(app_settings')
    /\ app_processing' = TRUE
    /\ processor_created' = TRUE
    /\ cancelled' = FALSE
    /\ cancel_pc' = "none"
    /\ settings' = app_settings'
    /\ runs_started' = runs_started + 1
    /\ output_exists' = FALSE
    /\ pc' = "load"
    /\ ret' = "none"
    /\ video_open' = FALSE
    /\ audio_open' = FALSE
    /\ zone' = "none"
    /\ section_end' = 0
    /\ step' = 0
    /\ current_time' = 0
    /\ segment_duration' = 0
    /\ repeats_left' = 0
    /\ beginning_clips' = <<>>
    /\ middle_clips' = <<>>
    /\ end_clips' = <<>>
    /\ include_idx' = 0
    /\ included_clips' = <<>>
    /\ all_segments' = <<>>
    /\ included_end_clips' = <<>>
    /\ trim_duration' = 0
    /\ final_video' = 0
    /\ concat_invoked' = FALSE
    /\ render_invoked' = FALSE
    /\ rendered_duration' = 0
    /\ error_logged' = "none"
    /\ UNCHANGED <<files, form, status, after_queue, log_writers>>

\* a run with repeats, and totals the start rejects
RerunScenarios ==
    EditScenarios
    \cup { Config(6000, 120, [BaseSettings EXCEPT
               !.effect_probs = [slowmo |-> 0, freeze |-> 0, normal |-> 900]]) }

InitRerun ==
    /\ Init
    /\ pinned = Free
    /\ \E c \in RerunScenarios :
        /\ video_duration = c.video
        /\ audio_duration = c.audio
        /\ form = FormOf(c.settings)
        /\ app_settings = StartupSettings(c.settings)

NextRerun ==
    \/ Next
    \/ StartAgain

SpecRerun == InitRerun /\ [][NextRerun]_vars

\* ------------------------------------------------------------------------
\* Scheduling: the worker thread keeps running and the event loop of the
\* UI thread runs the callbacks queued with root.after
\* ------------------------------------------------------------------------
WorkerStep ==
    \/ LoadFiles \/ LoadFails \/ CheckAfterLoad \/ ValidateAndPlan
    \/ ZoneLoop \/ ZoneClip \/ ZoneRepeat \/ ZoneStep \/ ZoneDone
    \/ FinalClip \/ IncludedLoop \/ CheckAfterIncluded
    \/ Organize \/ Trim \/ Extend
    \/ CheckBeforeConcat \/ Concat \/ CheckBeforeRender
    \/ Render \/ RenderFails \/ CleanupAndReturn

\* runs with repeats, with a target too short for any zone to be given a
\* segment, and with totals the start rejects
LiveScenarios ==
    EditScenarios
    \cup { Config(6000, 50, BaseSettings),
           Config(6000, 120, [BaseSettings EXCEPT
               !.effect_probs = [slowmo |-> 0, freeze |-> 0, normal |-> 900]]) }

InitLive ==
    /\ Init
    /\ pinned = Free
    /\ \E c \in LiveScenarios :
        /\ video_duration = c.video
        /\ audio_duration = c.audio
        /\ form = FormOf(c.settings)
        /\ app_settings = StartupSettings(c.settings)

SpecLive ==
    /\ InitLive
    /\ [][Next]_vars
    /\ WF_vars(WorkerStep)
    /\ WF_vars(ProcessingComplete)


\* ------------------------------------------------------------------------
\* Vocabulary of the properties
\* ------------------------------------------------------------------------
\* positions at which all_segments is the final Timeline
PostFit == pc \in {"chk_concat", "concat", "chk_render", "render", "cleanup"}

\* Beginning + Middle + End-main + Tail before fitting
PreFitMain == beginning_clips \o middle_clips \o end_clips

\* the main part and the included part of the final Timeline
MainPart == SubSeq(all_segments, 1, Len(all_segments) - Len(included_end_clips))

IncludedPart ==
    SubSeq(all_segments, Len(all_segments) - Len(included_end_clips) + 1,
           Len(all_segments))

IsPrefix(s, full) == Len(s) <= Len(full) /\ s = SubSeq(full, 1, Len(s))

RunCompleted == pc = "finished" /\ after_queue = <<>>

\* ------------------------------------------------------------------------
\* C1: after fitting, the durations of the final Timeline sum to at most
\* the target duration, or trimming has emptied the main sequence (the
\* Timeline then holds included descriptors only)
\* ------------------------------------------------------------------------
C1_PostFitting ==
    PostFit =>
        \/ SumDuration(all_segments) <= audio_duration
        \/ MainPart = <<>>

\* trimming removed descriptors, kept some, and the Timeline fits
C1_Witness ==
    /\ PostFit
    /\ MainPart # <<>>
    /\ Len(MainPart) < Len(PreFitMain)
    /\ included_end_clips # <<>>
    /\ SumDuration(all_segments) <= audio_duration

\* ------------------------------------------------------------------------
\* C2: the clip handed to write_videofile is never longer than the target
\* duration
\* ------------------------------------------------------------------------
C2_RenderClamped ==
    render_invoked => rendered_duration <= audio_duration

\* a Timeline longer than the target was rendered, cut to the target
C2_Witness ==
    /\ pc = "cleanup"
    /\ render_invoked
    /\ SumDuration(all_segments) > audio_duration
    /\ rendered_duration = audio_duration

\* ------------------------------------------------------------------------
\* C3: a cancel() that happens before write_videofile is invoked makes
\* process_video return False, the completion handler report the run as
\* cancelled, and leaves no file at the output path once the handler ran
\* ------------------------------------------------------------------------
BeforeRenderPcs ==
    {"load", "chk_load", "validate", "zone_loop", "zone_clip", "zone_repeat",
     "zone_step", "zone_done", "final_clip", "incl_loop", "chk_included",
     "organize", "trim", "extend", "chk_concat", "concat", "chk_render", "render"}

CancelScope ==
    {"zone_loop", "zone_clip", "zone_repeat", "zone_step", "zone_done",
     "final_clip", "incl_loop", "chk_included", "organize", "trim", "extend"}

C4_CancelStopsRun ==
    /\ [][(cancelled /\ cancel_pc \in CancelScope) =>
            /\ ~(pc = "zone_loop" /\ pc' = "zone_clip")
            /\ zone' \in {zone, "none"}
            /\ pc' \notin {"concat", "chk_render", "render", "cleanup"}
            /\ ~concat_invoked'
            /\ ~render_invoked']_vars
    /\ []((cancelled /\ cancel_pc \in CancelScope /\ RunCompleted) =>
            (status = "cancelled" /\ ret = "False"))

\* cancelled in the trimming loop, which has no check of its own
C4_Witness ==
    /\ cancelled
    /\ cancel_pc = "trim"
    /\ RunCompleted
    /\ status = "cancelled"
    /\ ~concat_invoked

\* ------------------------------------------------------------------------
\* C5: no descriptor of the final Timeline covers source time inside an
\* excluded range
\* ------------------------------------------------------------------------
Disjoint(clip, range) ==
    clip.start + clip.span < range[1] \/ clip.start > range[2]

C5_NoExcludedTime ==
    PostFit =>
        \A i \in 1..Len(all_segments) :
            \A j \in 1..Len(settings.excluded_timestamps) :
                Disjoint(all_segments[i], settings.excluded_timestamps[j])

\* ------------------------------------------------------------------------
\* C6: every segment sampled in a zone lies inside the source:
\* 0 <= start and start + duration <= sourceDuration
\* ------------------------------------------------------------------------
InsideSource(clip) ==
    0 <= clip.start /\ clip.start + clip.span <= video_duration

C6_SampledInsideSource ==
    \A i \in 1..Len(PreFitMain) :
        PreFitMain[i].zone # "tail" => InsideSource(PreFitMain[i])

\* ------------------------------------------------------------------------
\* C7: every run that reaches the concatenation has the tail window
\* descriptor in its final Timeline
\* ------------------------------------------------------------------------
C7_TailAlwaysPresent ==
    pc = "concat" =>
        \E i \in 1..Len(all_segments) :
            /\ all_segments[i].zone = "tail"
            /\ all_segments[i].start = video_duration - TailStartOffset
            /\ all_segments[i].span = TailStartOffset - TailEndOffset


\* ------------------------------------------------------------------------
\* C8: the included part of the final Timeline is exactly one descriptor
\* per included range tagged 'end' with start < end, of source span
\* end - start, in insertion order, after every main descriptor; ranges
\* tagged 'beginning' or 'middle' contribute nothing
\* ------------------------------------------------------------------------
\* <<start, end - start>> of a sequence of ranges
SpansOfRanges(ranges) ==
    [i \in 1..Len(ranges) |-> <<ranges[i][1], ranges[i][2] - ranges[i][1]>>]

IsIncludedClip(clip) == clip.zone = "included"

\* <<start, span>> of the descriptors built from included ranges, in order
SpansOfIncluded(clips) ==
    LET sel == SelectSeq(clips, IsIncludedClip) IN
    [i \in 1..Len(sel) |-> <<sel[i].start, sel[i].span>>]

\* no main descriptor follows an included one
IncludedLast(clips) ==
    \A i, j \in 1..Len(clips) :
        (clips[i].zone = "included" /\ i < j) => clips[j].zone = "included"

EndTagged(r) == r[3] = "end" /\ r[1] < r[2]

ScheduledRange(r) ==
    /\ r[3] \notin {"beginning", "middle"}
    /\ r[1] < r[2]
    /\ r[1] <= video_duration

\* no effect that can be drawn raises while the clip is built
EffectsBuild == \A e \in EffectChoices(settings) : ~EffectRaises(e, settings)

C9_TrimFromTail ==
    /\ pc = "trim" => IsPrefix(all_segments, PreFitMain)
    /\ PostFit =>
        /\ IsPrefix(MainPart, PreFitMain)
        /\ IncludedPart = SelectEnd(included_clips)

\* some but not all main descriptors were removed before an included one
C9_Witness ==
    /\ PostFit
    /\ MainPart # <<>>
    /\ Len(MainPart) < Len(PreFitMain)
    /\ IncludedPart # <<>>
    /\ IncludedPart = SelectEnd(included_clips)

\* ------------------------------------------------------------------------
\* C10: the excess that drives trimming is the main duration plus the
\* duration of the end-tagged included descriptors only, so the fitted
\* main sequence is what trimming by that excess leaves
\* ------------------------------------------------------------------------
RECURSIVE TrimBy(_, _)
\* the main sequence after popping from the tail while the excess is positive
TrimBy(segments, excess) ==
    IF excess > 0 /\ segments # <<>>
    THEN TrimBy(SubSeq(segments, 1, Len(segments) - 1),
                excess - segments[Len(segments)].duration)
    ELSE segments

EndOnlyExcess ==
    SumDuration(PreFitMain) + SumDuration(SelectEnd(included_clips))
        - audio_duration

C10_ExcessEndTaggedOnly ==
    PostFit => MainPart = TrimBy(PreFitMain, EndOnlyExcess)

\* ------------------------------------------------------------------------
\* C11: an empty Timeline after fitting makes the run fail with the
\* no-segments error: process_video returns False, neither concatenation
\* nor render is invoked, and a run nobody cancelled is reported as failed
\* ------------------------------------------------------------------------
C11_EmptyTimelineFails ==
    /\ [][(pc = "extend" /\ pc' # pc /\
            all_segments \o included_end_clips = <<>>) =>
            (error_logged' = "no_segments" /\ ret' = "False")]_vars
    /\ [](error_logged = "no_segments" =>
            /\ ret = "False"
            /\ ~concat_invoked
            /\ ~render_invoked
            /\ ((RunCompleted /\ ~cancelled) => status = "failed"))

\* trimming popped the tail clip, the only descriptor, and the run failed
C11_Witness ==
    /\ error_logged = "no_segments"
    /\ RunCompleted
    /\ ~cancelled
    /\ status = "failed"
    /\ audio_duration < TailStartOffset - TailEndOffset

\* ------------------------------------------------------------------------
\* C12: the final Timeline is Beginning, Middle, End-main, Tail and
\* end-tagged included descriptors in this order; inside a zone the source
\* starts never decrease, and the repeats of a window directly follow the
\* descriptor they repeat
\* ------------------------------------------------------------------------
ZoneRank(z) ==
    IF z = "beginning" THEN 1
    ELSE IF z = "middle" THEN 2
    ELSE IF z = "end" THEN 3
    ELSE IF z = "tail" THEN 4
    ELSE 5

SampledZones == {"beginning", "middle", "end"}

\* the descriptors of one provenance, in Timeline order
ZoneGroup(z) == SelectSeq(all_segments, LAMBDA c : c.zone = z)

C12_TimelineOrder ==
    PostFit =>
        /\ IsPrefix(MainPart, PreFitMain)
        /\ IncludedPart = SelectEnd(included_clips)
        /\ all_segments = ZoneGroup("beginning") \o ZoneGroup("middle")
                \o ZoneGroup("end") \o ZoneGroup("tail") \o ZoneGroup("included")
        /\ ZoneGroup("beginning") = SubSeq(beginning_clips, 1, Len(ZoneGroup("beginning")))
        /\ \A i \in 1..(Len(all_segments) - 1) :
              LET a == all_segments[i]
                  b == all_segments[i + 1]
              IN  /\ ZoneRank(a.zone) <= ZoneRank(b.zone)
                  /\ (a.zone = b.zone /\ a.zone \in SampledZones) =>
                        a.start <= b.start
        /\ \A i, j \in 1..Len(all_segments) :
              LET a == all_segments[i]
                  b == all_segments[j]
              IN  (i < j /\ a.zone = b.zone /\ a.zone \in SampledZones
                         /\ a.start = b.start) =>
                      /\ a.span = b.span
                      /\ \A k \in i..j : all_segments[k].start = a.start

\* descriptors of two zones, the second zone with a repeat after its origin
C12_Witness ==
    /\ PostFit
    /\ \E i \in 1..(Len(all_segments) - 2) :
          /\ all_segments[i].zone # all_segments[i + 1].zone
          /\ all_segments[i + 1].zone = all_segments[i + 2].zone
          /\ all_segments[i + 1].start = all_segments[i + 2].start

\* ------------------------------------------------------------------------
\* C13: the End-main zone starts at duration - 300 s for sources of at
\* most 90 minutes, at duration - 480 s for sources of more than 90 and at
\* most 120 minutes, and at duration - 600 s for longer ones; the tail
\* window is [duration - 10 s, duration - 0.5 s)
\* ------------------------------------------------------------------------
ExpectedMainStart ==
    IF video_duration <= 54000 THEN video_duration - 3000
    ELSE IF video_duration <= 72000 THEN video_duration - 4800
    ELSE video_duration - 6000

C13_EndZoneLaw ==
    /\ [][(zone # "end" /\ zone' = "end") =>
            /\ current_time' = ExpectedMainStart
            /\ section_end' = video_duration - 100]_vars
    /\ [](\A i \in 1..Len(end_clips) :
            end_clips[i].zone = "tail" =>
                /\ end_clips[i].start = video_duration - 100
                /\ end_clips[i].start + end_clips[i].span = video_duration - 5)

\* a source of exactly 90 minutes enters the End zone 300 s before its end
C13_Witness ==
    /\ zone = "end"
    /\ pc = "zone_loop"
    /\ video_duration = 54000
    /\ current_time = 51000
    /\ section_end = 53900

\* ------------------------------------------------------------------------
\* C14: a start whose effect_probs or segment_dist total is off by more
\* than 0.01 is rejected before any zone is sampled and has no side
\* effect: the media are never opened and the settings structure is not
\* modified
\* ------------------------------------------------------------------------
TotalsRejected == ~UiTotalsOk(Collect(app_settings, form))

C14_RejectedWithoutEffect ==
    /\ [][(pc = "idle" /\ TotalsRejected) =>
            /\ pc' = "idle"
            /\ ~app_processing'
            /\ ~video_open' /\ ~audio_open'
            /\ app_settings' = app_settings]_vars
    /\ []((pc = "idle" /\ TotalsRejected) => (~video_open /\ ~audio_open))

\* ------------------------------------------------------------------------
\* C15: a configuration whose totals are within 0.01 of 1.0 and that
\* start_processing accepted is not rejected by process_video: the
\* settings error is never raised
\* ------------------------------------------------------------------------
C15_AcceptedEverywhere ==
    (pc # "idle" /\ UiTotalsOk(settings)) => error_logged # "settings"

\* ------------------------------------------------------------------------
\* C16: a range with start >= end, or an included range with a placement
\* tag other than beginning/middle/end, is rejected when the configuration
\* is loaded, so the media are never opened with such a range in the
\* settings of the run
\* ------------------------------------------------------------------------
WellFormedRanges(s) ==
    /\ \A i \in 1..Len(s.excluded_timestamps) :
            s.excluded_timestamps[i][1] < s.excluded_timestamps[i][2]
    /\ \A i \in 1..Len(s.include_timestamps) :
            /\ s.include_timestamps[i][1] < s.include_timestamps[i][2]
            /\ s.include_timestamps[i][3] \in Positions

C16_MalformedRejectedAtLoad ==
    video_open => WellFormedRanges(settings)

\* ------------------------------------------------------------------------
\* C17: whenever process_video has returned after opening the source
\* video and audio, both handles are closed
\* ------------------------------------------------------------------------
C17_HandlesClosedOnReturn ==
    ret # "none" => (~video_open /\ ~audio_open)

\* ------------------------------------------------------------------------
\* C18: when opening the source or the render call raised and nobody
\* cancelled, the run is reported as failed and, once the completion
\* handler has run, no file remains at the output path
\* ------------------------------------------------------------------------
C18_NoPartialOutput ==
    (RunCompleted /\ ~cancelled /\ error_logged \in {"load", "render"}) =>
        (status = "failed" /\ ~output_exists)

\* ------------------------------------------------------------------------
\* C19: while the worker runs, nothing the UI thread does (adding
\* timestamps, collecting or saving settings) changes the values the
\* worker reads from its settings; the cancellation flag is the only state
\* the UI thread writes that the worker can observe
\* ------------------------------------------------------------------------
C19_WorkerSettingsPrivate ==
    [][WorkerAlive => settings' = settings]_vars

\* ------------------------------------------------------------------------
\* C20: an error raised while a candidate segment is built is caught and
\* logged and only that segment is skipped; in particular, after a repeat
\* of a window the remaining repeats of the window are still attempted
\* ------------------------------------------------------------------------
\* the claim as stated, for the repeats of a window
C20_OnlyThatSegmentSkipped ==
    [][(pc = "zone_repeat" /\ ~cancelled /\ repeats_left > 1
            /\ repeats_left' # repeats_left) =>
            (pc' = "zone_repeat" /\ repeats_left' = repeats_left - 1)]_vars

\* an accepted window, or a non-empty included range, that yields no clip
WindowFailed ==
    /\ pc \in {"zone_clip", "zone_repeat"}
    /\ pc' # pc
    /\ ~cancelled
    /\ ~ClipRejected(current_time, segment_duration)
    /\ zone_clips' = zone_clips

RangeFailed ==
    /\ pc = "incl_loop"
    /\ include_idx' = include_idx + 1
    /\ settings.include_timestamps[include_idx][1]
            < settings.include_timestamps[include_idx][2]
    /\ included_clips' = included_clips

\* the claim as amended: the error is logged, the descriptors collected so
\* far are kept, the run goes on with the advance of the sampling position
\* or with the next included range, and the error alone never makes
\* process_video return False; an error raised by the first clip of a
\* window or by one of its repeats also ends the repeats of that window
C20_ErrorSkipsWindow ==
    /\ [][WindowFailed =>
            /\ error_logged' = "clip"
            /\ pc' = "zone_step"
            /\ repeats_left' = 0
            /\ zone' = zone
            /\ current_time' = current_time
            /\ ret' = "none"]_vars
    /\ [][RangeFailed =>
            /\ error_logged' = "clip"
            /\ pc' = "incl_loop"
            /\ zone_clips' = zone_clips
            /\ ret' = "none"]_vars
    /\ [][(pc = "zone_step" /\ pc' # pc) =>
            (pc' = "zone_loop" /\ current_time' > current_time)]_vars
    /\ []((error_logged = "clip" /\ ret = "False") => cancelled)

\* the first repeat of the only accepted window raised: the origin
\* descriptor is kept and the position is about to advance
C20_Witness ==
    /\ pc = "zone_step"
    /\ error_logged = "clip"
    /\ settings.slowmo_speed = 0
    /\ Len(end_clips) = 1
    /\ end_clips[1].start = current_time

\* ------------------------------------------------------------------------
\* C21: for a 600 s source, a 60 s target and no excluded or included
\* ranges, whatever the random draws, the final Timeline is non-empty and
\* its total duration is at most 60 s: trimming never empties the main
\* sequence
\* ------------------------------------------------------------------------
ScenarioA ==
    /\ pc # "idle"
    /\ video_duration = 6000
    /\ audio_duration = 600
    /\ settings.excluded_timestamps = <<>>
    /\ settings.include_timestamps = <<>>

C21_ScenarioANonEmpty ==
    ScenarioA =>
        /\ error_logged # "no_segments"
        /\ PostFit =>
            /\ all_segments # <<>>
            /\ SumDuration(all_segments) <= 600

\* slow-motion descriptors were sampled, trimming popped some of them and
\* the rest is rendered
C21_Witness ==
    /\ ScenarioA
    /\ pc = "render"
    /\ all_segments # <<>>
    /\ Len(all_segments) < Len(PreFitMain)
    /\ all_segments[1].effect = "slowmo"

\* ------------------------------------------------------------------------
\* C22: with the single excluded range [0, 200] on a 600 s source the
\* Beginning zone yields no descriptor, and the Middle and End zones are
\* unaffected: each of their candidates yields its descriptor as it does
\* without excluded ranges
\* ------------------------------------------------------------------------
ScenarioB ==
    /\ pc # "idle"
    /\ video_duration = 6000
    /\ settings.excluded_timestamps = << <<0, 2000, "x">> >>

\* the worker decides on the first clip of a candidate
CandidateDecided == pc = "zone_clip" /\ ~cancelled /\ pc' # pc

InExcludedRange(t) ==
    \E i \in 1..Len(settings.excluded_timestamps) :
        /\ settings.excluded_timestamps[i][1] <= t
        /\ t <= settings.excluded_timestamps[i][2]

\* probes of the current candidate, the end of the window included
ClosedProbes ==
    {t \in current_time..(current_time + segment_duration) :
        (t - current_time) % ProbeStep = 0}

\* probes of the current candidate, the end of the window left out
HalfOpenProbes ==
    {t \in current_time..(current_time + segment_duration - 1) :
        (t - current_time) % ProbeStep = 0}

\* the first clip of a candidate is decided and building it cannot raise
CandidateBuilt ==
    /\ CandidateDecided
    /\ EffectsBuild
    /\ ~SubclipRaises(current_time, video_duration)

\* the claim as stated
C23_ClosedWindowProbes ==
    [][CandidateBuilt =>
        (zone_clips' # zone_clips <=> ~\E t \in ClosedProbes : InExcludedRange(t))]_vars

\* the claim as amended: the probes are start <= t < start + duration
C23_HalfOpenWindowProbes ==
    [][CandidateBuilt =>
        IF \E t \in HalfOpenProbes : InExcludedRange(t)
        THEN /\ zone_clips' = zone_clips
             /\ pc' = "zone_step"
             /\ repeats_left' = 0
        ELSE /\ zone_clips' # zone_clips
             /\ Len(ZoneClips') = Len(ZoneClips) + 1
             /\ ZoneClips'[Len(ZoneClips')].start = current_time
             /\ ZoneClips'[Len(ZoneClips')].span = segment_duration]_vars

\* a 4 s window was accepted although it ends where an excluded range begins
C23_Witness ==
    /\ Len(settings.excluded_timestamps) = 2
    /\ settings.excluded_timestamps[2][1] = 5360
    /\ end_clips # <<>>
    /\ end_clips[1].start + end_clips[1].span = 5360
    /\ InExcludedRange(5360)

\* ------------------------------------------------------------------------
\* C24: the fitting step accounts in source spans: the main duration, the
\* included duration and the amount subtracted for each popped descriptor
\* are the span read from the source, not the duration after the effect
\* ------------------------------------------------------------------------
\* duration of the clip after its effect, from the window and the effect
OutputDuration(c) ==
    IF c.effect = "slowmo" THEN (c.span * 100) \div settings.slowmo_speed
    ELSE c.span

RECURSIVE SumSpans(_)
SumSpans(clips) ==
    IF clips = <<>> THEN 0 ELSE Head(clips).span + SumSpans(Tail(clips))

RECURSIVE SumOutput(_)
SumOutput(clips) ==
    IF clips = <<>> THEN 0
    ELSE OutputDuration(Head(clips)) + SumOutput(Tail(clips))

\* the clips of create_included_segment_clips, without their positions
IncludedClipObjects ==
    [i \in 1..Len(included_clips) |-> included_clips[i].clip]

TrimStarts == pc = "organize" /\ pc' = "trim"

ClipPopped == pc = "trim" /\ all_segments' # all_segments

\* the claim as stated
C24_SourceSpanAccounting ==
    /\ [][TrimStarts =>
            trim_duration' = SumSpans(PreFitMain) + SumSpans(IncludedClipObjects)
                                - audio_duration]_vars
    /\ [][ClipPopped =>
            trim_duration' = trim_duration - Popped(all_segments).span]_vars

\* the claim as amended: the durations after the effect are used
C24_OutputDurationAccounting ==
    /\ [][(pc = "organize" /\ pc' # pc) =>
            LET excess == SumOutput(PreFitMain) + SumOutput(IncludedClipObjects)
                            - audio_duration
            IN  IF excess > 0
                THEN pc' = "trim" /\ trim_duration' = excess
                ELSE pc' = "extend"]_vars
    /\ [][ClipPopped =>
            trim_duration' = trim_duration - OutputDuration(Popped(all_segments))]_vars

\* a slow-motion descriptor, longer than its source span, has been popped
C24_Witness ==
    /\ pc = "extend"
    /\ Len(all_segments) < Len(PreFitMain)
    /\ PreFitMain[Len(all_segments) + 1].effect = "slowmo"
    /\ PreFitMain[Len(all_segments) + 1].duration
            > PreFitMain[Len(all_segments) + 1].span

\* ------------------------------------------------------------------------
\* C25: the sampling loop of a zone terminates for every target segment
\* count, 0 included: each iteration moves the position forward by at
\* least 0.8 * step > 0 until fewer than 2 s remain, and once the
\* cancellation flag is set the next loop test leaves the loop without
\* another candidate
\* ------------------------------------------------------------------------
InZoneLoop == pc \in {"zone_loop", "zone_clip", "zone_repeat", "zone_step"}

C25_ZoneLoopTerminates ==
    /\ [][(pc = "zone_step" /\ pc' # pc) =>
            /\ step > 0
            /\ (step * 80) \div 100 > 0
            /\ current_time' >= current_time + (step * 80) \div 100
            /\ pc' = "zone_loop"]_vars
    /\ [][(pc = "zone_loop" /\ pc' # pc) =>
            IF cancelled \/ section_end - current_time < 20
            THEN pc' = "zone_done" /\ zone_clips' = zone_clips
            ELSE pc' = "zone_clip"]_vars
    /\ (InZoneLoop ~> pc = "zone_done")

\* a zone that was given no segment has been sampled once and is left
C25_Witness ==
    /\ pc = "zone_done"
    /\ ZoneSegments(zone, audio_duration, settings) = 0
    /\ step > 0
    /\ ZoneClips # <<>>
    /\ ~cancelled

\* ------------------------------------------------------------------------
\* C26: a run whose render completed and whose process_video returned
\* True is reported as completed and keeps its output file, whatever the
\* UI thread does between the return and the completion handler
\* ------------------------------------------------------------------------
C26_FinishedRunKept ==
    (RunCompleted /\ ret = "True" /\ render_invoked) =>
        (status = "completed" /\ output_exists)

\* ------------------------------------------------------------------------
\* C27: at most one run is active: while app.processing is set no new
\* VideoProcessor and no new worker thread is created, so the processor
\* that cancel_processing and processing_complete refer to belongs to the
\* worker that is running or whose callback is pending
\* ------------------------------------------------------------------------
C27_OneRunAtATime ==
    /\ [][runs_started' # runs_started =>
            /\ ~app_processing
            /\ ~WorkerAlive
            /\ after_queue = <<>>]_vars
    /\ []((WorkerAlive \/ after_queue # <<>>) =>
            (app_processing /\ processor_created))
    /\ [](Len(after_queue) <= 1)

\* the second run is sampling, after the first one has been reported
C27_Witness ==
    /\ runs_started = 2
    /\ pc = "zone_clip"
    /\ app_processing
    /\ status # "Ready"

\* ------------------------------------------------------------------------
\* C28: every started run ends with exactly one completion callback run by
\* the UI thread, which clears app.processing, whether the run succeeded,
\* failed or was cancelled (the media calls are assumed to return)
\* ------------------------------------------------------------------------
C28_RunEndsWithOneCallback ==
    /\ (pc = "load") ~> (RunCompleted /\ ~app_processing)
    /\ [][Len(after_queue') > Len(after_queue) =>
            /\ pc # "finished"
            /\ pc' = "finished"
            /\ after_queue = <<>>
            /\ Len(after_queue') = 1]_vars
    /\ [][Len(after_queue') < Len(after_queue) =>
            /\ pc = "finished"
            /\ ~app_processing'
            /\ status' \in {"completed", "cancelled", "failed"}]_vars
    /\ [][pc = "finished" => pc' = "finished"]_vars
    /\ [](RunCompleted => ~app_processing)

\* a cancelled run has been reported and the flag is clear again
C28_Witness ==
    /\ RunCompleted
    /\ ~app_processing
    /\ cancelled
    /\ status = "cancelled"

\* ------------------------------------------------------------------------
\* C29: the log text widget and the progress label are written by the UI
\* thread only; the worker thread never writes a widget itself
\* ------------------------------------------------------------------------
C29_WidgetsWrittenByUiThread == log_writers \subseteq {"ui"}

\* ------------------------------------------------------------------------
\* C30: the three zones are disjoint and ordered: Beginning ends where
\* Middle starts, the End zone starts at or after the end of Middle, and
\* the source start times of the main sequence never decrease
\* ------------------------------------------------------------------------
C30_ZonesDisjointOrdered ==
    video_open =>
        /\ ZoneEnd("beginning", video_duration) = ZoneStart("middle", video_duration)
        /\ ZoneStart("end", video_duration) >= ZoneEnd("middle", video_duration)
        /\ \A i, j \in DOMAIN PreFitMain :
                i < j => PreFitMain[i].start <= PreFitMain[j].start

====
